---- MODULE Spec2Model ----
(***************************************************************************)
(* State-machine model of kernels of the pulp-dsp library:                 *)
(*   - plp_mat_mult_cmplx_stride_f32s_xpulpv2  (strided complex product)   *)
(*   - plp_mat_scale_stride_f32p_xpulpv2       (parallel strided scale)    *)
(*   - plp_mat_mult_cmplx_stride_i32           (glue code / dispatcher)    *)
(*   - plp_cmplx_dot_prod_i16_xpulpv2          (complex dot product)       *)
(*   - plp_cmplx_conj_i8_xpulpv2               (complex conjugate)         *)
(* Each kernel call keeps its state in one record variable whose fields    *)
(* carry the names of the C arguments and locals.  A record whose pc is    *)
(* "idle" belongs to a kernel that is not called in the behaviour.         *)
(* float elements are modelled as integers, where the arithmetic is exact. *)
(***************************************************************************)
EXTENDS Integers, Sequences, FiniteSets, TLC

VARIABLES mm,    \* the call of plp_mat_mult_cmplx_stride_f32s_xpulpv2
          sc,    \* the job of plp_mat_scale_stride_f32p_xpulpv2 and its workers
          dsp,   \* the calls of plp_mat_mult_cmplx_stride_i32
          dp,    \* the call of plp_cmplx_dot_prod_i16_xpulpv2
          cj     \* the call of plp_cmplx_conj_i8_xpulpv2

vars == <<mm, sc, dsp, dp, cj>>

\* ------------------------------------------------------------------ bounds
MaxDim == 2     \* M, N, O range over 0..MaxDim
MaxPad == 1     \* a stride exceeds the logical width by 0..MaxPad
MaxRows == 3    \* rows of the scaled matrix: 0..MaxRows
MaxPE == 2      \* worker-pool sizes up to MaxPE
MaxCalls == 3   \* dispatcher calls in one behaviour
MaxSamples == 2 \* complex samples of a dot product
MaxConj == 3    \* complex samples of a conjugated vector

Idle == [pc |-> "idle"]

\* ------------------------------------------------------------ input data
\* Complex element values <<re, im>> the matrices are filled from.
ElemVals == << <<1, 2>>, <<3, 4>>, <<0, -1>>, <<-2, 0>>, <<2, -3>> >>

Seeds == {"p", "q"}           \* two element patterns
IdentitySeed == "I"           \* the Kronecker-delta matrix
SeedShift(seed) == IF seed = "p" THEN 0 ELSE 1
PadFill(k) == 90 + k          \* content of the padding scalar at offset k of A and B
DstFills == {7, -9}          \* prior content of the destination buffer

\* Logical element (row, col) of the matrix generated by seed: a pair <<re, im>>.
Elem(seed, row, col) ==
    IF seed = IdentitySeed
    THEN (IF row = col THEN <<1, 0>> ELSE <<0, 0>>)
    ELSE ElemVals[((SeedShift(seed) + 2 * row + 3 * col) % Len(ElemVals)) + 1]

\* Flat interleaved buffer of a rows x width complex matrix stored with stride.
CmplxBuffer(seed, rows, width, stride) ==
    [k \in 0..(2 * rows * stride - 1) |->
        LET e == k \div 2
            row == e \div stride
            col == e % stride
        IN IF col < width THEN Elem(seed, row, col)[(k % 2) + 1] ELSE PadFill(k)]

\* ------------------------------------------------------------------------
\* plp_mat_mult_cmplx_stride_f32s_xpulpv2
\* ------------------------------------------------------------------------
SrcAOffset(s) == (s.m * s.strideA + s.n) * 2
SrcBOffset(s) == (s.n * s.strideB + s.o) * 2

DstOffsetDense(s) == (s.m * s.O + s.o) * 2
DstOffset(s) == (s.m * s.strideC + s.o) * 2

MacReSignSlip(a_re, a_im, b_re, b_im) == a_re * b_re + a_im * b_im
MacRe(a_re, a_im, b_re, b_im) == a_re * b_re - a_im * b_im

MacImOperandSlip(a_re, a_im, b_re, b_im) == a_re * b_im + a_im * b_im
MacIm(a_re, a_im, b_re, b_im) == a_re * b_im + a_im * b_re

\* The value sum_re / sum_im start from for one output element.
SumInitAccumulating(s, part) == s.pDstC[DstOffset(s) + part]
SumInit(s, part) == 0

InitMatMult ==
    /\ \E M \in 0..MaxDim, N \in 0..MaxDim, O \in 0..MaxDim,
          padA \in 0..MaxPad, padB \in 0..MaxPad, padC \in 0..MaxPad,
          seedA \in Seeds, seedB \in Seeds \cup {IdentitySeed}, fill \in DstFills :
         LET dst == [k \in 0..(2 * M * (O + padC) - 1) |-> fill + k]
         IN mm = [pc |-> "loop_m",
                  pSrcA |-> CmplxBuffer(seedA, M, N, N + padA),
                  pSrcB |-> CmplxBuffer(seedB, N, O, O + padB),
                  pDstC |-> dst,
                  M |-> M, N |-> N, O |-> O,
                  strideA |-> N + padA, strideB |-> O + padB, strideC |-> O + padC,
                  m |-> 0, o |-> 0, n |-> 0, sum_re |-> 0, sum_im |-> 0,
                  \* observation of the call, not program state
                  seedA |-> seedA, seedB |-> seedB,
                  srcA0 |-> CmplxBuffer(seedA, M, N, N + padA),
                  srcB0 |-> CmplxBuffer(seedB, N, O, O + padB),
                  dst0 |-> dst,
                  writes |-> [k \in 0..(2 * M * (O + padC) - 1) |-> 0],
                  readsA |-> {}, readsB |-> {}]
    /\ sc = Idle /\ dsp = Idle /\ dp = Idle /\ cj = Idle

\* for (int m = 0; m < M; m++): the loop test; o starts at 0 for the row.
MM_LoopM ==
    /\ mm.pc = "loop_m"
    /\ mm' = IF mm.m < mm.M
             THEN [mm EXCEPT !.pc = "loop_o", !.o = 0]
             ELSE [mm EXCEPT !.pc = "done"]
    /\ UNCHANGED <<sc, dsp, dp, cj>>

\* for (int o = 0; o < O; o++): the loop test, then sum_re = 0; sum_im = 0; n = 0.
\* When the test fails the row is finished: m++.
MM_LoopO ==
    /\ mm.pc = "loop_o"
    /\ mm' = IF mm.o < mm.O
             THEN [mm EXCEPT !.pc = "loop_n", !.n = 0,
                             !.sum_re = SumInit(mm, 0), !.sum_im = SumInit(mm, 1)]
             ELSE [mm EXCEPT !.pc = "loop_m", !.m = mm.m + 1]
    /\ UNCHANGED <<sc, dsp, dp, cj>>

\* for (int n = 0; n < N; n++): one complex multiply-accumulate, or loop exit.
MM_LoopN ==
    /\ mm.pc = "loop_n"
    /\ mm' = IF mm.n < mm.N
             THEN LET a_re == mm.pSrcA[SrcAOffset(mm) + 0]
                      a_im == mm.pSrcA[SrcAOffset(mm) + 1]
                      b_re == mm.pSrcB[SrcBOffset(mm) + 0]
                      b_im == mm.pSrcB[SrcBOffset(mm) + 1]
                  IN [mm EXCEPT !.sum_re = mm.sum_re + MacRe(a_re, a_im, b_re, b_im),
                                !.sum_im = mm.sum_im + MacIm(a_re, a_im, b_re, b_im),
                                !.n = mm.n + 1,
                                !.readsA = mm.readsA \cup {SrcAOffset(mm), SrcAOffset(mm) + 1},
                                !.readsB = mm.readsB \cup {SrcBOffset(mm), SrcBOffset(mm) + 1}]
             ELSE [mm EXCEPT !.pc = "store"]
    /\ UNCHANGED <<sc, dsp, dp, cj>>

\* pDstC[(m*strideC+o)*2+0] = sum_re; pDstC[(m*strideC+o)*2+1] = sum_im; o++.
MM_Store ==
    /\ mm.pc = "store"
    /\ LET d == DstOffset(mm)
       IN mm' = [mm EXCEPT !.pDstC = [mm.pDstC EXCEPT ![d] = mm.sum_re,
                                                      ![d + 1] = mm.sum_im],
                           !.writes = [mm.writes EXCEPT ![d] = @ + 1, ![d + 1] = @ + 1],
                           !.o = mm.o + 1,
                           !.pc = "loop_o"]
    /\ UNCHANGED <<sc, dsp, dp, cj>>

NextMatMult == MM_LoopM \/ MM_LoopO \/ MM_LoopN \/ MM_Store

SpecMatMult == InitMatMult /\ [][NextMatMult]_vars

\* ---- reference: the dense product of the logical matrices, no buffer, no stride
RECURSIVE RefSum(_, _, _, _, _)
RefSum(seedA, seedB, row, col, len) ==
    IF len = 0 THEN <<0, 0>>
    ELSE LET r == RefSum(seedA, seedB, row, col, len - 1)
             a == Elem(seedA, row, len - 1)
             b == Elem(seedB, len - 1, col)
         IN <<r[1] + (a[1] * b[1] - a[2] * b[2]), r[2] + (a[1] * b[2] + a[2] * b[1])>>

MMReturned == mm.pc = "done"

\* The scalar offsets of the logical output elements.
OutOffsets ==
    {(r * mm.strideC + c) * 2 + part : r \in 0..(mm.M - 1), c \in 0..(mm.O - 1), part \in {0, 1}}

\* C1: after plp_mat_mult_cmplx_stride_f32s_xpulpv2 returns, every output pair
\* at (m*strideC+o)*2, +1 is the complex sum over n < N of A[m,n]*B[n,o], i.e. the
\* dense reference product of the logical matrices, whatever the strides and the
\* padding contents; A=[[1+2i]], B=[[3+4i]] gives C=[[-5+10i]].
C1_StridedProductIsDenseReference ==
    MMReturned =>
        /\ \A r \in 0..(mm.M - 1), c \in 0..(mm.O - 1) :
              /\ mm.pDstC[(r * mm.strideC + c) * 2] = RefSum(mm.seedA, mm.seedB, r, c, mm.N)[1]
              /\ mm.pDstC[(r * mm.strideC + c) * 2 + 1] = RefSum(mm.seedA, mm.seedB, r, c, mm.N)[2]
        /\ ( /\ mm.M = 1 /\ mm.N = 1 /\ mm.O = 1
             /\ mm.pSrcA[0] = 1 /\ mm.pSrcA[1] = 2
             /\ mm.pSrcB[0] = 3 /\ mm.pSrcB[1] = 4 )
           => (mm.pDstC[0] = -5 /\ mm.pDstC[1] = 10)

C1_Witness ==
    /\ MMReturned /\ mm.M = 2 /\ mm.N = 2 /\ mm.O = 2
    /\ mm.strideA > mm.N /\ mm.strideB > mm.O /\ mm.strideC > mm.O
    /\ mm.seedB # IdentitySeed

\* C6: the call writes exactly the 2*M*O scalars of the logical output elements,
\* each exactly once; every other scalar of the destination buffer keeps its prior
\* value and the buffers of A and B are unchanged.
C6_WritesExactlyTheOutputElements ==
    /\ mm.pc # "idle" =>
          /\ mm.pSrcA = mm.srcA0 /\ mm.pSrcB = mm.srcB0
          /\ \A k \in DOMAIN mm.pDstC :
                /\ mm.writes[k] <= 1
                /\ mm.writes[k] > 0 => k \in OutOffsets
                /\ mm.writes[k] = 0 => mm.pDstC[k] = mm.dst0[k]
    /\ MMReturned =>
          \A k \in DOMAIN mm.pDstC : (mm.writes[k] = 1) <=> (k \in OutOffsets)

C6_Witness ==
    /\ MMReturned /\ mm.M = 2 /\ mm.O = 1 /\ mm.N = 2 /\ mm.strideC > mm.O
    /\ mm.writes[2] = 0 /\ mm.writes[4] = 1

\* C7: with N = 0 every output element is stored as exactly zero (real and
\* imaginary part), whatever the destination held before, and no element of A
\* or B is read; with M = 0 or O = 0 nothing is written.
C7_EmptyReductionStoresZero ==
    /\ (MMReturned /\ mm.N = 0) =>
          /\ \A k \in OutOffsets : mm.pDstC[k] = 0 /\ mm.writes[k] = 1
          /\ mm.readsA = {} /\ mm.readsB = {}
    /\ (mm.pc # "idle" /\ (mm.M = 0 \/ mm.O = 0)) =>
          /\ mm.pDstC = mm.dst0
          /\ \A k \in DOMAIN mm.writes : mm.writes[k] = 0

C7_Witness ==
    /\ MMReturned /\ mm.N = 0 /\ mm.M = 2 /\ mm.O = 2 /\ mm.strideC > mm.O
    /\ mm.dst0[0] # 0 /\ mm.pDstC[0] = 0

\* C8: the product of an M x N matrix A and the N x N identity stores A in C:
\* C[m,o] = A[m,o] in the real and the imaginary part, for any strides.
C8_IdentityIsRightNeutral ==
    (MMReturned /\ mm.seedB = IdentitySeed /\ mm.N = mm.O) =>
        \A r \in 0..(mm.M - 1), c \in 0..(mm.N - 1) :
            /\ mm.pDstC[(r * mm.strideC + c) * 2] = mm.pSrcA[(r * mm.strideA + c) * 2]
            /\ mm.pDstC[(r * mm.strideC + c) * 2 + 1] = mm.pSrcA[(r * mm.strideA + c) * 2 + 1]

C8_Witness ==
    /\ MMReturned /\ mm.seedB = IdentitySeed /\ mm.M = 2 /\ mm.N = 2 /\ mm.O = 2
    /\ mm.strideA > mm.N /\ mm.strideC > mm.O
    /\ mm.pDstC[1] # 0

\* ------------------------------------------------------------------------
\* plp_mat_scale_stride_f32p_xpulpv2: one call per core on a shared job
\* ------------------------------------------------------------------------
ScaleFactors == {2, -3}

\* Logical element (row, col) of the real source matrix generated by seed.
SrcElem(seed, row, col) == 1 + SeedShift(seed) + 2 * row + 3 * col

RealBuffer(seed, rows, width, stride) ==
    [k \in 0..(rows * stride - 1) |->
        IF k % stride < width THEN SrcElem(seed, k \div stride, k % stride) ELSE PadFill(k)]

\* int core_id = rt_core_id(); for (int m = core_id; ...
StartRow(core_id) == core_id

RowInRangeShort(s, w) == s.m[w] < s.M - 1
RowInRange(s, w) == s.m[w] < s.M

NextRowUnit(s, w) == s.m[w] + 1
NextRowByCore(s, w) == s.m[w] + w
NextRow(s, w) == s.m[w] + s.nPE

ScaleVal(s, w) == s.pSrc[s.m[w] * s.strideSrc + s.n[w]] * s.scaleFactor

\* The log of the rows a core has entered.  No correct run enters more than M
\* rows, so the log keeps the first M + 1 entries and drops later ones.
LogRow(log, row, M) == IF Len(log) <= M THEN Append(log, row) ELSE log

\* The job descriptor (args) and the cores that execute the kernel on it.
ScaleJob(M, N, padSrc, padDst, seed, scaleFactor, nPE, cores) ==
    LET dst == [k \in 0..(M * (N + padDst) - 1) |-> 500 + k]
    IN [pc |-> "called",
        pSrc |-> RealBuffer(seed, M, N, N + padSrc),
        pDst |-> dst,
        M |-> M, N |-> N, strideSrc |-> N + padSrc, strideDst |-> N + padDst,
        scaleFactor |-> scaleFactor, nPE |-> nPE,
        cores |-> cores,
        wpc |-> [w \in cores |-> "loop_m"],
        m |-> [w \in cores |-> StartRow(w)],
        n |-> [w \in cores |-> 0],
        \* observation of the calls, not program state
        dst0 |-> dst,
        rows |-> [w \in cores |-> <<>>],
        writers |-> [k \in 0..(M * (N + padDst) - 1) |-> {}]]

\* The caller's contract: nPE >= 1 and one call per core 0..nPE-1.
InitScale ==
    /\ \E M \in 0..MaxRows, N \in 0..MaxDim, padSrc \in 0..MaxPad, padDst \in 0..MaxPad,
          seed \in Seeds, scaleFactor \in ScaleFactors, nPE \in 1..MaxPE :
         sc = ScaleJob(M, N, padSrc, padDst, seed, scaleFactor, nPE, 0..(nPE - 1))
    /\ mm = Idle /\ dsp = Idle /\ dp = Idle /\ cj = Idle

\* Any descriptor, the contract violation nPE = 0 included: then one core calls.
InitScaleAnyPE ==
    /\ \E M \in 0..MaxRows, N \in 0..MaxDim, padSrc \in 0..MaxPad, padDst \in 0..MaxPad,
          seed \in Seeds, scaleFactor \in ScaleFactors, nPE \in 0..MaxPE :
         \E core_id \in 0..MaxPE :
            sc = ScaleJob(M, N, padSrc, padDst, seed, scaleFactor, nPE,
                          IF nPE = 0 THEN {core_id} ELSE 0..(nPE - 1))
    /\ mm = Idle /\ dsp = Idle /\ dp = Idle /\ cj = Idle

\* for (int m = core_id; m < M; m += nPE): the loop test of core w.
SC_LoopM(w) ==
    /\ sc.pc = "called" /\ w \in sc.cores
    /\ sc.wpc[w] = "loop_m"
    /\ sc' = IF RowInRange(sc, w)
             THEN [sc EXCEPT !.wpc[w] = "loop_n", !.n[w] = 0,
                             !.rows[w] = LogRow(@, sc.m[w], sc.M)]
             ELSE [sc EXCEPT !.wpc[w] = "done"]
    /\ UNCHANGED <<mm, dsp, dp, cj>>

\* for (int n = 0; n < N; n++) { val = pSrc[m*strideSrc+n] * scaleFactor;
\* pDst[m*strideDst+n] = val; }  and, at the end of the row, m += nPE.
SC_LoopN(w) ==
    /\ sc.pc = "called" /\ w \in sc.cores
    /\ sc.wpc[w] = "loop_n"
    /\ sc' = IF sc.n[w] < sc.N
             THEN LET d == sc.m[w] * sc.strideDst + sc.n[w]
                  IN [sc EXCEPT !.pDst[d] = ScaleVal(sc, w),
                                !.writers[d] = @ \cup {w},
                                !.n[w] = @ + 1]
             ELSE [sc EXCEPT !.wpc[w] = "loop_m", !.m[w] = NextRow(sc, w)]
    /\ UNCHANGED <<mm, dsp, dp, cj>>

SC_Worker(w) == SC_LoopM(w) \/ SC_LoopN(w)

NextScale == \E w \in 0..MaxPE : SC_Worker(w)

SpecScale == InitScale /\ [][NextScale]_vars

SCReturned == sc.pc = "called" /\ \A w \in sc.cores : sc.wpc[w] = "done"

\* ---- reference: the rows below M in order, as one worker with nPE = 1 runs them
RECURSIVE SingleWorkerRun(_, _, _)
SingleWorkerRun(dst, row, col) ==
    IF row >= sc.M THEN dst
    ELSE IF col >= sc.N THEN SingleWorkerRun(dst, row + 1, 0)
    ELSE SingleWorkerRun(
            [dst EXCEPT ![row * sc.strideDst + col] =
                            sc.pSrc[row * sc.strideSrc + col] * sc.scaleFactor],
            row, col + 1)

\* C2: when every worker 0..nPE-1 has returned, under every interleaving of the
\* element writes, the destination buffer is the one a single worker (nPE = 1)
\* produces: pDst[m*strideDst+n] = pSrc[m*strideSrc+n]*scaleFactor for m < M,
\* n < N, the rest as before; it depends neither on nPE nor on the schedule.
C2_ParallelEqualsSingleWorker ==
    SCReturned =>
        /\ sc.pDst = SingleWorkerRun(sc.dst0, 0, 0)
        /\ \A r \in 0..(sc.M - 1), c \in 0..(sc.N - 1) :
              sc.pDst[r * sc.strideDst + c] = sc.pSrc[r * sc.strideSrc + c] * sc.scaleFactor

C2_Witness ==
    /\ SCReturned /\ sc.nPE = 2 /\ sc.M = 3 /\ sc.N = 2
    /\ sc.strideSrc > sc.N /\ sc.strideDst > sc.N
    /\ sc.pDst # sc.dst0

\* The rows w, w+nPE, w+2*nPE, ... below M, in increasing order.
RECURSIVE StridedRows(_, _, _)
StridedRows(row, step, M) ==
    IF row >= M THEN <<>> ELSE <<row>> \o StridedRows(row + step, step, M)

SeqRange(q) == {q[i] : i \in DOMAIN q}

\* C3: worker w processes exactly the rows w, w+nPE, w+2*nPE, ... below M, in
\* increasing order; the row sets of distinct workers are disjoint, no
\* destination element is written by two workers, and when all workers have
\* returned the union of the row sets is [0, M); a worker w >= M has no row.
C3_StridedRowPartition ==
    sc.pc = "called" =>
        /\ \A w \in sc.cores :
              /\ \E len \in 0..Len(StridedRows(w, sc.nPE, sc.M)) :
                    sc.rows[w] = SubSeq(StridedRows(w, sc.nPE, sc.M), 1, len)
              /\ sc.wpc[w] = "done" => sc.rows[w] = StridedRows(w, sc.nPE, sc.M)
              /\ w >= sc.M => sc.rows[w] = <<>>
        /\ \A v, w \in sc.cores : v # w => SeqRange(sc.rows[v]) \cap SeqRange(sc.rows[w]) = {}
        /\ \A k \in DOMAIN sc.writers : Cardinality(sc.writers[k]) <= 1
        /\ SCReturned => UNION {SeqRange(sc.rows[w]) : w \in sc.cores} = 0..(sc.M - 1)

C3_Witness ==
    /\ SCReturned /\ sc.nPE = 2 /\ sc.M = 3 /\ sc.N = 2
    /\ sc.rows[0] = <<0, 2>> /\ sc.rows[1] = <<1>>

\* Every core executes its own instruction stream: a core that has a step to
\* take eventually takes it.
CoresRun == \A w \in 0..MaxPE : WF_vars(SC_Worker(w))

FairSpecScaleAnyPE == InitScaleAnyPE /\ [][NextScale]_vars /\ CoresRun

\* C5: a call whose job descriptor has nPE = 0 terminates, for every M, N and
\* core_id (the row index of the outer loop always advances).
C5_ZeroPoolCallTerminates ==
    (sc.pc = "called" /\ sc.nPE = 0) ~> SCReturned

\* ------------------------------------------------------------------------
\* Either kernel, called under its contract, with its cores running
\* ------------------------------------------------------------------------
InitKernels == InitMatMult \/ InitScale

NextKernels == NextMatMult \/ NextScale

FairSpecKernels ==
    InitKernels /\ [][NextKernels]_vars /\ WF_vars(NextMatMult) /\ CoresRun

\* C10: every kernel call runs to completion: the triple loop of the complex
\* product returns, and with nPE >= 1 every worker core_id < nPE returns; a
\* worker that has not returned always has a step of its own to take, whatever
\* the other workers have or have not done.
C10_KernelsRunToCompletion ==
    /\ (mm.pc # "idle") ~> MMReturned
    /\ (sc.pc = "called") ~> SCReturned
    /\ [](sc.pc = "called" =>
            \A w \in sc.cores : sc.wpc[w] # "done" => ENABLED SC_Worker(w))

\* Worker 1 has returned from its rows while worker 0 has not taken a step.
C10_Witness ==
    /\ sc.pc = "called" /\ sc.nPE = 2 /\ sc.M = 3 /\ sc.N = 2
    /\ sc.wpc[1] = "done" /\ sc.rows[1] = <<1>>
    /\ sc.wpc[0] = "loop_m" /\ sc.rows[0] = <<>>

\* ------------------------------------------------------------------------
\* plp_mat_mult_cmplx_stride_i32: glue code
\* ------------------------------------------------------------------------
ARCHI_FC_CID == 32            \* the cluster id of the fabric controller
ClusterIds == {0, 1, ARCHI_FC_CID}     \* what rt_cluster_id() can return

\* Two distinct sets of the nine arguments.
CallArgs ==
    { [pSrcA |-> "a1", pSrcB |-> "b1", M |-> 1, N |-> 2, O |-> 3,
       strideA |-> 4, strideB |-> 5, strideC |-> 6, pDstC |-> "c1"],
      [pSrcA |-> "a2", pSrcB |-> "b2", M |-> 3, N |-> 1, O |-> 2,
       strideA |-> 2, strideB |-> 4, strideC |-> 5, pDstC |-> "c2"] }

\* The kernel invocations one call of the glue code makes, in order.
DispatchCached(d, args) ==
    IF d.invoked = <<>>
    THEN (IF d.cluster_id = ARCHI_FC_CID
          THEN << [kernel |-> "plp_mat_mult_cmplx_stride_i32s_rv32im", args |-> args] >>
          ELSE << [kernel |-> "plp_mat_mult_cmplx_stride_i32s_xpulpv2", args |-> args] >>)
    ELSE << [kernel |-> d.invoked[1].kernel, args |-> args] >>
Dispatch(d, args) ==
    IF d.cluster_id = ARCHI_FC_CID
    THEN << [kernel |-> "plp_mat_mult_cmplx_stride_i32s_rv32im", args |-> args] >>
    ELSE << [kernel |-> "plp_mat_mult_cmplx_stride_i32s_xpulpv2", args |-> args] >>

InitDispatch ==
    /\ \E cid \in ClusterIds :
         dsp = [pc |-> "ready", cluster_id |-> cid, invoked |-> <<>>,
                \* observation of the calls, not program state
                calls |-> <<>>]
    /\ mm = Idle /\ sc = Idle /\ dp = Idle /\ cj = Idle

\* The next call is issued from another execution unit.
DSP_OtherUnit ==
    /\ dsp.pc = "ready"
    /\ \E cid \in ClusterIds \ {dsp.cluster_id} : dsp' = [dsp EXCEPT !.cluster_id = cid]
    /\ UNCHANGED <<mm, sc, dp, cj>>

\* One call of plp_mat_mult_cmplx_stride_i32(pSrcA, ..., pDstC).
DSP_Call ==
    /\ dsp.pc = "ready"
    /\ Len(dsp.calls) < MaxCalls
    /\ \E args \in CallArgs :
         dsp' = [dsp EXCEPT !.invoked = @ \o Dispatch(dsp, args),
                            !.calls = Append(@, [cid |-> dsp.cluster_id, args |-> args,
                                                 before |-> Len(dsp.invoked)])]
    /\ UNCHANGED <<mm, sc, dp, cj>>

NextDispatch == DSP_OtherUnit \/ DSP_Call

SpecDispatch == InitDispatch /\ [][NextDispatch]_vars

\* C4: every call of the glue code invokes exactly one kernel exactly once, with
\* the nine arguments unchanged: the rv32im kernel iff rt_cluster_id() equals
\* ARCHI_FC_CID during that call, else the xpulpv2 kernel; the choice of a call
\* depends on the identity returned during that call only, not on earlier calls.
C4_DispatchByCallerIdentity ==
    dsp.pc = "ready" =>
        /\ Len(dsp.invoked) = Len(dsp.calls)
        /\ \A i \in DOMAIN dsp.calls :
              /\ dsp.calls[i].before = i - 1
              /\ dsp.invoked[i].args = dsp.calls[i].args
              /\ dsp.invoked[i].kernel \in {"plp_mat_mult_cmplx_stride_i32s_rv32im",
                                             "plp_mat_mult_cmplx_stride_i32s_xpulpv2"}
              /\ (dsp.invoked[i].kernel = "plp_mat_mult_cmplx_stride_i32s_rv32im")
                    <=> (dsp.calls[i].cid = ARCHI_FC_CID)

C4_Witness ==
    /\ dsp.pc = "ready" /\ Len(dsp.calls) = 3
    /\ dsp.calls[1].cid = ARCHI_FC_CID /\ dsp.calls[2].cid = 0 /\ dsp.calls[3].cid = ARCHI_FC_CID
    /\ dsp.invoked[1].kernel = "plp_mat_mult_cmplx_stride_i32s_rv32im"
    /\ dsp.invoked[2].kernel = "plp_mat_mult_cmplx_stride_i32s_xpulpv2"
    /\ dsp.invoked[3].kernel = "plp_mat_mult_cmplx_stride_i32s_rv32im"
    /\ dsp.calls[1].args # dsp.calls[2].args

\* ------------------------------------------------------------------------
\* plp_cmplx_dot_prod_i16_xpulpv2
\* ------------------------------------------------------------------------
\* Exact integers beyond 32 bits are kept as <<hi, lo>> = hi * 2^16 + lo with
\* lo in 0 .. 2^16 - 1, so that the exact value of an accumulator update can be
\* compared with the signed 32-bit range.
Half == 2 ^ 16
Wide(x) == <<x \div Half, x % Half>>
WAdd(a, b) == <<a[1] + b[1] + ((a[2] + b[2]) \div Half), (a[2] + b[2]) % Half>>
WNeg(a) == IF a[2] = 0 THEN <<0 - a[1], 0>> ELSE <<0 - a[1] - 1, Half - a[2]>>
WSub(a, b) == WAdd(a, WNeg(b))
InInt32(a) == a[1] >= 0 - (Half \div 2) /\ a[1] < Half \div 2
\* The two's-complement 32-bit value of an exact integer.
Wrap32(a) == (((a[1] + Half \div 2) % Half) - Half \div 2) * Half + a[2]
Int32Min == Wrap32(<<Half \div 2, 0>>)
Int32Max == Wrap32(<<Half \div 2 - 1, Half - 1>>)

\* A signed overflow of C arithmetic on int32_t is undefined: the build may
\* leave the wrapped value or any other; the extremes stand for the others.
CInt32(a) == IF InInt32(a) THEN {Wrap32(a)} ELSE {Wrap32(a), Int32Min, Int32Max}

\* __DOTP2(x, y): x[0]*y[0] + x[1]*y[1] in a 32-bit register.
DOTP2(x, y) == Wrap32(WAdd(Wide(x[1] * y[1]), Wide(x[2] * y[2])))
\* __SUMDOTP2(x, y, z): z + x[0]*y[0] + x[1]*y[1], exact.
SumDotp2Exact(x, y, z) == WAdd(Wide(z), WAdd(Wide(x[1] * y[1]), Wide(x[2] * y[2])))
\* (int16_t) of an int32_t: the low 16 bits, two's complement.
ToInt16(x) == (((x % Half) + Half \div 2) % Half) - Half \div 2

\* Complex int16 samples <<re, im>> of the two vectors.
SamplesA == { <<-32768, -32768>>, <<32767, -32768>>, <<1, 2>> }
SamplesB == { <<-32768, -32768>>, <<-32768, 32767>>, <<3, -4>> }

Interleave(v) == [k \in 0..(2 * Len(v) - 1) |-> v[(k \div 2) + 1][(k % 2) + 1]]

SampleVectors(S, len) == [1..len -> S]

InitDotProd ==
    /\ \E numSamples \in 0..MaxSamples :
         \E va \in SampleVectors(SamplesA, numSamples), vb \in SampleVectors(SamplesB, numSamples) :
            dp = [pc |-> "loop",
                  pSrcA |-> Interleave(va), pSrcB |-> Interleave(vb),
                  numSamples |-> numSamples,
                  i |-> 0, loopEnd |-> numSamples \div 2,
                  real_sum |-> 0, imag_sum |-> 0,
                  realResult |-> 0, imagResult |-> 0,
                  \* observation: an update of real_sum / imag_sum in the last
                  \* step had an exact value outside the signed 32-bit range
                  overflow |-> FALSE]
    /\ mm = Idle /\ sc = Idle /\ dsp = Idle /\ cj = Idle

\* for (i = 0; i < loopEnd; i++): two samples per iteration, or loop exit.
DP_Loop ==
    /\ dp.pc = "loop"
    /\ IF dp.i < dp.loopEnd
       THEN LET ab == <<dp.pSrcA[4 * dp.i], dp.pSrcA[4 * dp.i + 1]>>
                ef == <<dp.pSrcA[4 * dp.i + 2], dp.pSrcA[4 * dp.i + 3]>>
                cd == <<dp.pSrcB[4 * dp.i], dp.pSrcB[4 * dp.i + 1]>>
                gh == <<dp.pSrcB[4 * dp.i + 2], dp.pSrcB[4 * dp.i + 3]>>
                bf == <<ab[2], ef[2]>>
                dh == <<cd[2], gh[2]>>
                ae == <<ab[1], ef[1]>>
                cg == <<cd[1], gh[1]>>
                re1 == SumDotp2Exact(ae, cg, dp.real_sum)
                re2 == WSub(Wide(Wrap32(re1)), Wide(DOTP2(bf, dh)))
                dc == <<cd[2], cd[1]>>
                hg == <<gh[2], gh[1]>>
                im1 == SumDotp2Exact(ab, dc, dp.imag_sum)
                im2 == SumDotp2Exact(ef, hg, Wrap32(im1))
            IN \E re \in CInt32(re2) :
                 dp' = [dp EXCEPT !.real_sum = re,
                                  !.imag_sum = Wrap32(im2),
                                  !.i = dp.i + 1,
                                  !.overflow = ~(InInt32(re1) /\ InInt32(re2)
                                                 /\ InInt32(im1) /\ InInt32(im2))]
       ELSE dp' = [dp EXCEPT !.pc = "tail", !.overflow = FALSE]
    /\ UNCHANGED <<mm, sc, dsp, cj>>

\* if (numSamples & 1) { ... }: the last sample of an odd count, in C arithmetic.
DP_Tail ==
    /\ dp.pc = "tail"
    /\ IF dp.numSamples % 2 = 1
       THEN LET r_a1 == dp.pSrcA[4 * dp.i]
                i_a1 == dp.pSrcA[4 * dp.i + 1]
                r_b1 == dp.pSrcB[4 * dp.i]
                i_b1 == dp.pSrcB[4 * dp.i + 1]
                dre == WSub(Wide(r_a1 * r_b1), Wide(i_a1 * i_b1))
                dim == WAdd(Wide(r_a1 * i_b1), Wide(i_a1 * r_b1))
            IN \E cre \in CInt32(dre), cim \in CInt32(dim) :
                 \E rs \in CInt32(WAdd(Wide(dp.real_sum), Wide(cre))),
                    is \in CInt32(WAdd(Wide(dp.imag_sum), Wide(cim))) :
                      dp' = [dp EXCEPT !.real_sum = rs, !.imag_sum = is,
                                       !.pc = "store",
                                       !.overflow =
                                           ~( /\ InInt32(WAdd(Wide(dp.real_sum), dre))
                                              /\ InInt32(WAdd(Wide(dp.imag_sum), dim)) )]
       ELSE dp' = [dp EXCEPT !.pc = "store", !.overflow = FALSE]
    /\ UNCHANGED <<mm, sc, dsp, cj>>

\* *realResult = real_sum; *imagResult = imag_sum;
DP_Store ==
    /\ dp.pc = "store"
    /\ dp' = [dp EXCEPT !.realResult = ToInt16(dp.real_sum),
                        !.imagResult = ToInt16(dp.imag_sum),
                        !.pc = "done", !.overflow = FALSE]
    /\ UNCHANGED <<mm, sc, dsp, cj>>

NextDotProd == DP_Loop \/ DP_Tail \/ DP_Store

SpecDotProd == InitDotProd /\ [][NextDotProd]_vars

\* C9: at no step of the reduction does an update of the 32-bit accumulators
\* real_sum and imag_sum leave the signed 32-bit range.
C9_AccumulatorsStayInInt32 ==
    dp.pc # "idle" => ~dp.overflow

\* ---- reference: the documented algorithm, one sample per step, exact sums
RECURSIVE DocDotProd(_)
DocDotProd(len) ==
    IF len = 0 THEN <<Wide(0), Wide(0)>>
    ELSE LET r == DocDotProd(len - 1)
             a_re == dp.pSrcA[2 * (len - 1)]
             a_im == dp.pSrcA[2 * (len - 1) + 1]
             b_re == dp.pSrcB[2 * (len - 1)]
             b_im == dp.pSrcB[2 * (len - 1) + 1]
         IN <<WAdd(r[1], WSub(Wide(a_re * b_re), Wide(a_im * b_im))),
              WAdd(r[2], WAdd(Wide(a_re * b_im), Wide(a_im * b_re)))>>

DPReturned == dp.pc = "done"

Byte == 2 ^ 8
Int8 == (0 - Byte \div 2)..(Byte \div 2 - 1)
\* The int8_t with the low 8 bits of x, two's complement.
ToInt8(x) == (((x % Byte) + Byte \div 2) % Byte) - Byte \div 2

\* Bitwise exclusive or of the low `bits` bits of two non-negative integers.
RECURSIVE BitXor(_, _, _)
BitXor(a, b, bits) ==
    IF bits = 0 THEN 0
    ELSE (((a % 2) + (b % 2)) % 2) + 2 * BitXor(a \div 2, b \div 2, bits - 1)

\* __EXOR4(x, y): lane-wise exclusive or of two v4s.
EXOR4(x, y) == [l \in 1..4 |-> ToInt8(BitXor(x[l] % Byte, y[l] % Byte, 8))]

\* One 32-bit addition of the packed words: the carry of a lane enters the next.
RECURSIVE WordAddLanes(_, _, _, _)
WordAddLanes(x, y, l, carry) ==
    IF l > 4 THEN <<>>
    ELSE LET t == (x[l] % Byte) + (y[l] % Byte) + carry
         IN <<ToInt8(t)>> \o WordAddLanes(x, y, l + 1, t \div Byte)
ADD4AsWordAdd(x, y) == WordAddLanes(x, y, 1, 0)
\* __ADD4(x, y): lane-wise 8-bit addition of two v4s, no carry between lanes.
ADD4(x, y) == [l \in 1..4 |-> ToInt8(x[l] + y[l])]

inverter == <<0, -1, 0, -1>>
adder == <<0, 1, 0, 1>>

\* pDst[i*4+1] = -pSrc[i*4+1]: negation in int, stored as int8_t.
ScalarNegate(x) == ToInt8(0 - x)

\* The source vector probing the int8 value v: sample k has the imaginary part
\* v + 37*k and the real part v + 64 + 5*k (as int8_t), so that over all v every
\* int8 value stands in every lane.
ConjSource(v, numSamples) ==
    [k \in 0..(2 * numSamples - 1) |->
        IF k % 2 = 1 THEN ToInt8(v + 37 * (k \div 2)) ELSE ToInt8(v + 64 + 5 * (k \div 2))]

\* The destination holds two more scalars than the 2*numSamples of the result.
InitConj ==
    /\ \E numSamples \in 0..MaxConj, v \in Int8 :
         LET dst == [k \in 0..(2 * numSamples + 1) |-> ToInt8(11 + 3 * k)]
         IN cj = [pc |-> "loop",
                  pSrc |-> ConjSource(v, numSamples),
                  pDst |-> dst,
                  numSamples |-> numSamples,
                  i |-> 0,
                  loop_length |-> numSamples \div 2,
                  clean_up |-> numSamples % 2,
                  \* observation of the call, not program state
                  dst0 |-> dst,
                  writes |-> [k \in 0..(2 * numSamples + 1) |-> 0]]
    /\ mm = Idle /\ sc = Idle /\ dsp = Idle /\ dp = Idle

\* for (i = 0; i < loop_length; i++): two samples per iteration, or loop exit.
CJ_Loop ==
    /\ cj.pc = "loop"
    /\ cj' = IF cj.i < cj.loop_length
             THEN LET cVec == [l \in 1..4 |-> cj.pSrc[4 * cj.i + l - 1]]
                      res == ADD4(EXOR4(cVec, inverter), adder)
                  IN [cj EXCEPT !.pDst = [k \in DOMAIN cj.pDst |->
                                            IF k \in (4 * cj.i)..(4 * cj.i + 3)
                                            THEN res[k - 4 * cj.i + 1] ELSE cj.pDst[k]],
                                !.writes = [k \in DOMAIN cj.writes |->
                                            IF k \in (4 * cj.i)..(4 * cj.i + 3)
                                            THEN cj.writes[k] + 1 ELSE cj.writes[k]],
                                !.i = cj.i + 1]
             ELSE [cj EXCEPT !.pc = "clean_up"]
    /\ UNCHANGED <<mm, sc, dsp, dp>>

\* if (clean_up) { pDst[i*4] = pSrc[i*4]; pDst[i*4+1] = -pSrc[i*4+1]; }
CJ_CleanUp ==
    /\ cj.pc = "clean_up"
    /\ cj' = IF cj.clean_up # 0
             THEN [cj EXCEPT !.pDst = [cj.pDst EXCEPT ![cj.i * 4] = cj.pSrc[cj.i * 4],
                                                      ![cj.i * 4 + 1] = ScalarNegate(cj.pSrc[cj.i * 4 + 1])],
                             !.writes = [cj.writes EXCEPT ![cj.i * 4] = @ + 1,
                                                          ![cj.i * 4 + 1] = @ + 1],
                             !.pc = "done"]
             ELSE [cj EXCEPT !.pc = "done"]
    /\ UNCHANGED <<mm, sc, dsp, dp>>

NextConj == CJ_Loop \/ CJ_CleanUp

SpecConj == InitConj /\ [][NextConj]_vars

CJReturned == cj.pc = "done"

\* The negation of an int8 value in 8-bit two's complement, by cases.
Neg8(x) == IF x = 0 - 128 THEN 0 - 128 ELSE 0 - x

\* C11: the call writes exactly pDst[0 .. 2*numSamples-1] and nothing beyond, with
\* pDst[2n] = pSrc[2n] and pDst[2n+1] = -pSrc[2n+1] in 8-bit two's complement
\* (-128 maps to -128), for even and odd numSamples; the vector path (XOR with
\* {0,-1,0,-1}, add {0,1,0,1}) and the scalar clean-up path give the same
\* value for the samples of the call.
C11_ConjugateWritesExactlyTheSamples ==
    /\ cj.pc # "idle" =>
          /\ \A k \in DOMAIN cj.pDst :
                /\ cj.writes[k] <= 1
                /\ cj.writes[k] = 0 => cj.pDst[k] = cj.dst0[k]
                /\ k >= 2 * cj.numSamples => cj.writes[k] = 0
          /\ \A n \in 0..(cj.numSamples - 1) :
                LET re == cj.pSrc[2 * n]
                    im == cj.pSrc[2 * n + 1]
                    vec == ADD4(EXOR4(<<re, im, re, im>>, inverter), adder)
                IN /\ vec[1] = re /\ vec[3] = re
                   /\ vec[2] = ScalarNegate(im) /\ vec[4] = ScalarNegate(im)
    /\ CJReturned =>
          \A n \in 0..(cj.numSamples - 1) :
              /\ cj.writes[2 * n] = 1 /\ cj.writes[2 * n + 1] = 1
              /\ cj.pDst[2 * n] = cj.pSrc[2 * n]
              /\ cj.pDst[2 * n + 1] = Neg8(cj.pSrc[2 * n + 1])

\* An odd count: one vector iteration and the clean-up, with -128 negated in both.
C11_Witness ==
    /\ CJReturned /\ cj.numSamples = 3
    /\ cj.pSrc[1] = 0 - 128 /\ cj.pDst[1] = 0 - 128
    /\ cj.pDst[5] = Neg8(cj.pSrc[5]) /\ cj.pDst[5] # cj.dst0[5]
    /\ cj.writes[6] = 0 /\ cj.writes[5] = 1

====
